---------------------------- MODULE Spec2Model ----------------------------
(* Nelder-Mead simplex minimizer of pajacobs-ghub/nm (package nelmin, with *)
(* the vector arithmetic of package array), as a state machine.            *)
(*                                                                         *)
(* Reals are exact rationals <<num, den>> (den > 0, lowest terms), so the  *)
(* arithmetic of the code is modelled without rounding.  Go slices are     *)
(* 0-based; the sequences here are 1-based, so Go index j is j+1 here.     *)
EXTENDS Integers, Sequences, FiniteSets

(* ------------------------------ bounds --------------------------------- *)
\* Largest number of parameters N of a start point.
MaxN == 2
\* Largest evaluation budget NFEvaluationsMax a caller configures.
MaxEvals == 7

(* --------------------------- rational numbers -------------------------- *)
Abs(a) == IF a < 0 THEN -a ELSE a

RECURSIVE GCD(_, _)
GCD(a, b) == IF b = 0 THEN a ELSE GCD(b, a % b)

\* The rational n/d in lowest terms with a positive denominator.
Rat(n, d) ==
  LET s == IF d < 0 THEN -1 ELSE 1
      g == GCD(Abs(n), Abs(d))
  IN  <<(s * n) \div g, (s * d) \div g>>

RInt(n) == <<n, 1>>
RZero == <<0, 1>>
ROne == <<1, 1>>
RTwo == <<2, 1>>
RHalf == <<1, 2>>

\* Sums and products cancel common factors before multiplying, which keeps
\* the intermediate integers small.
RAdd(a, b) ==
  LET g == GCD(a[2], b[2])
  IN  Rat(a[1] * (b[2] \div g) + b[1] * (a[2] \div g), (a[2] \div g) * b[2])
RNeg(a) == <<-a[1], a[2]>>
RSub(a, b) == RAdd(a, RNeg(b))
RMul(a, b) ==
  LET g == GCD(Abs(a[1]), b[2])
      h == GCD(Abs(b[1]), a[2])
  IN  IF a[1] = 0 \/ b[1] = 0 THEN <<0, 1>>
      ELSE <<(a[1] \div g) * (b[1] \div h), (a[2] \div h) * (b[2] \div g)>>
RLess(a, b) ==
  LET g == GCD(a[2], b[2])
  IN  a[1] * (b[2] \div g) < b[1] * (a[2] \div g)
RLeq(a, b) == ~RLess(b, a)

(* ------------------------- package array: Vector ----------------------- *)
\* array.NewVector(n): n zeros.
NewVector(n) == [j \in 1..n |-> RZero]

\* array.NewVectorFromArray(data): a copy of data.
NewVectorFromArray(data) == [j \in 1..Len(data) |-> data[j]]

\* z.Add(a, b): the new contents of z, and the error returned.
VecAdd(z, a, b) ==
  IF Len(z) # Len(a) \/ Len(z) # Len(b)
  THEN [z |-> z, err |-> "Inconsistent array lengths"]
  ELSE [z |-> [j \in 1..Len(z) |-> RAdd(a[j], b[j])], err |-> "nil"]

\* z.Blend(a, b, sa, sb): z[j] = sa*a[j] + sb*b[j].
Blend(z, a, b, sa, sb) ==
  IF Len(z) # Len(a) \/ Len(z) # Len(b)
  THEN [z |-> z, err |-> "Inconsistent array lengths"]
  ELSE [z |-> [j \in 1..Len(z) |-> RAdd(RMul(sa, a[j]), RMul(sb, b[j]))],
        err |-> "nil"]

\* z.Scale(a): every component multiplied by a.
Scale(z, a) == [j \in 1..Len(z) |-> RMul(z[j], a)]

(* ----------------------------- objectives ------------------------------ *)
RECURSIVE SumSeq(_)
SumSeq(s) == IF Len(s) = 0 THEN RZero ELSE RAdd(s[1], SumSeq(Tail(s)))

\* z.Sub(a, b): the new contents of z, and the error returned.
VecSub(z, a, b) ==
  IF Len(z) # Len(a) \/ Len(z) # Len(b)
  THEN [z |-> z, err |-> "Inconsistent array lengths"]
  ELSE [z |-> [j \in 1..Len(z) |-> RSub(a[j], b[j])], err |-> "nil"]

\* VectorDot(a, b): the sum of the products, and the error returned.
VectorDot(a, b) ==
  IF Len(a) # Len(b)
  THEN [s |-> RZero, err |-> "Inconsistent array lengths"]
  ELSE [s |-> SumSeq([j \in 1..Len(a) |-> RMul(a[j], b[j])]), err |-> "nil"]

\* The first text of vector.go: Add, AddWithScale, Sub and VectorDot return
\* no error and panic when the lengths are inconsistent.
AddOrPanic(z, a, b) ==
  IF Len(z) # Len(a) \/ Len(z) # Len(b)
  THEN [z |-> z, err |-> "panic"]
  ELSE [z |-> [j \in 1..Len(z) |-> RAdd(a[j], b[j])], err |-> "nil"]
AddWithScale(z, a, b, sa, sb) ==
  IF Len(z) # Len(a) \/ Len(z) # Len(b)
  THEN [z |-> z, err |-> "panic"]
  ELSE [z |-> [j \in 1..Len(z) |-> RAdd(RMul(sa, a[j]), RMul(sb, b[j]))],
        err |-> "nil"]
SubOrPanic(z, a, b) ==
  IF Len(z) # Len(a) \/ Len(z) # Len(b)
  THEN [z |-> z, err |-> "panic"]
  ELSE [z |-> [j \in 1..Len(z) |-> RSub(a[j], b[j])], err |-> "nil"]
VectorDotOrPanic(a, b) ==
  IF Len(a) # Len(b)
  THEN [s |-> RZero, err |-> "panic"]
  ELSE [s |-> SumSeq([j \in 1..Len(a) |-> RMul(a[j], b[j])]), err |-> "nil"]

\* The two texts of the package in vector.go and the operations on several
\* vectors.
Versions == {"panics", "returns errors"}
VectorOps == {"Add", "Sub", "Blend", "VectorDot"}

\* The operation op of the text version on the destination z and the
\* operands a and b (VectorDot has no destination; Blend, AddWithScale in
\* the first text, is given the factors 0.5 and 2): the destination
\* afterwards, the scalar returned and the error.
VectorOp(version, op, z, a, b) ==
  LET r == CASE op = "Add" ->
                  IF version = "panics" THEN AddOrPanic(z, a, b) ELSE VecAdd(z, a, b)
             [] op = "Sub" ->
                  IF version = "panics" THEN SubOrPanic(z, a, b) ELSE VecSub(z, a, b)
             [] op = "Blend" ->
                  IF version = "panics" THEN AddWithScale(z, a, b, RHalf, RTwo)
                  ELSE Blend(z, a, b, RHalf, RTwo)
             [] OTHER ->
                  LET d == IF version = "panics" THEN VectorDotOrPanic(a, b)
                           ELSE VectorDot(a, b)
                  IN  [z |-> z, s |-> d.s, err |-> d.err]
  IN  [z |-> r.z, s |-> IF op = "VectorDot" THEN r.s ELSE RZero, err |-> r.err]

\* obj1 of the tests: sum of (x[i] - 1)^2.
obj1(x) ==
  SumSeq([j \in 1..Len(x) |-> RMul(RSub(x[j], ROne), RSub(x[j], ROne))])

\* A step function of the tests' kind (obj2 is constant outside the unit
\* disc): the point x falls in one of three cells, and the objective is
\* constant on each cell.
RECURSIVE CellSum(_, _)
CellSum(x, j) ==
  IF j > Len(x) THEN 0 ELSE j * (Abs(x[j][1]) + 2 * x[j][2]) + CellSum(x, j + 1)

Cell(x) == CellSum(x, 1) % 3

\* The client-supplied objective functions the model draws from: the
\* quadratic of the tests, a linear function (unbounded below), a constant
\* (every comparison is a tie), and two step functions (ties, and no
\* relation between neighbouring points).
Objectives == {"obj1", "linear", "const", "cells", "slots"}

\* f(x) for an objective f: a pure function of x.
Eval(f, x) ==
  CASE f = "obj1" -> obj1(x)
    [] f = "linear" -> SumSeq(x)
    [] f = "const" -> RZero
    [] f = "cells" -> RInt(Cell(x))
    [] OTHER -> RInt(2 - Cell(x))

(* -------------------------- approximate equality ----------------------- *)
\* math.Abs(a) and a/b (b is never zero where it is used) on rationals.
RAbs(a) == <<Abs(a[1]), a[2]>>
RDiv(a, b) == Rat(a[1] * b[2], a[2] * b[1])

\* RelDiff with the 1.0 outside the factor 0.5: 0.5*(|a|+|b|) + 1.0.
RelDiffOneOutside(a, b) ==
  RDiv(RAbs(RSub(a, b)), RAdd(RMul(RHalf, RAdd(RAbs(a), RAbs(b))), ROne))

\* The left-hand side of the comparison in approxEquals and in
\* Vector.ApproxEquals: math.Abs(a-b)/(0.5*(math.Abs(a)+math.Abs(b)+1.0)).
RelDiff(a, b) ==
  RDiv(RAbs(RSub(a, b)), RMul(RHalf, RAdd(RAdd(RAbs(a), RAbs(b)), ROne)))

\* approxEquals(a, b, tol) of package nelmin.
approxEquals(a, b, tol) == RLeq(RelDiff(a, b), tol)

\* a.ApproxEquals(other, tol) of package array: false for another length or
\* at the first component whose difference is above tol.
VectorApproxEquals(a, other, tol) ==
  /\ Len(a) = Len(other)
  /\ ~\E j \in 1..Len(a) : RLess(tol, RelDiff(a[j], other[j]))

\* v.ApproxEquals(other, tol) of package nelmin.
VertexApproxEquals(v, other, tol) ==
  VectorApproxEquals(v.X, other.X, tol) /\ approxEquals(v.F, other.F, tol)

(* ------------------------------- Vertex -------------------------------- *)
\* NewVertex(n): the zero point with F = 0.
NewVertex(n) == [X |-> NewVector(n), F |-> RZero]

(* ------------------------------ Centroid ------------------------------- *)
\* The loop of Centroid: c after adding the vertices va[1..k].
RECURSIVE CentroidSum(_, _, _)
CentroidSum(c, va, k) ==
  IF k = 0 THEN c
  ELSE LET prev == CentroidSum(c, va, k - 1)
       IN  [X |-> VecAdd(prev.X, prev.X, va[k].X).z,
            F |-> RAdd(prev.F, va[k].F)]

\* Centroid with the slip k < 0 for k <= 0: no vertices left is no error.
CentroidOffByOne(va, p) ==
  LET nv == Len(va)
      k == nv - p
  IN  IF nv = 0 THEN [c |-> <<>>, err |-> "No vertices in array."]
      ELSE IF k < 0 THEN [c |-> <<>>, err |-> "Not enough vertices remaining."]
      ELSE IF k > nv THEN [c |-> <<>>, err |-> "panic"]
      ELSE [c |-> CentroidSum(NewVertex(Len(va[1].X)), va, k), err |-> "nil"]

\* Centroid with the slip s = 1/nv for s = 1/k: the mean over all vertices.
CentroidScaledByAll(va, p) ==
  LET nv == Len(va)
      k == nv - p
  IN  IF nv = 0 THEN [c |-> <<>>, err |-> "No vertices in array."]
      ELSE IF k <= 0 THEN [c |-> <<>>, err |-> "Not enough vertices remaining."]
      ELSE IF k > nv THEN [c |-> <<>>, err |-> "panic"]
      ELSE LET sum == CentroidSum(NewVertex(Len(va[1].X)), va, k)
               s == Rat(1, nv)
           IN  [c |-> [X |-> Scale(sum.X, s), F |-> RMul(sum.F, s)],
                err |-> "nil"]

\* Centroid(va, p): the vertex returned and the error.  With p < 0 the loop
\* runs past the end of va and the index expression va[i] panics.
Centroid(va, p) ==
  LET nv == Len(va)
      k == nv - p
  IN  IF nv = 0 THEN [c |-> <<>>, err |-> "No vertices in array."]
      ELSE IF k <= 0 THEN [c |-> <<>>, err |-> "Not enough vertices remaining."]
      ELSE IF k > nv THEN [c |-> <<>>, err |-> "panic"]
      ELSE LET sum == CentroidSum(NewVertex(Len(va[1].X)), va, k)
               s == Rat(1, k)
           IN  [c |-> [X |-> Scale(sum.X, s), F |-> RMul(sum.F, s)],
                err |-> "nil"]

(* ------------------------------ sortSimplex ---------------------------- *)
\* smplx is in ascending order of F.
IsAscending(smplx) ==
  \A a, b \in 1..Len(smplx) : a < b => RLeq(smplx[a].F, smplx[b].F)

\* The rearrangements of smplx.
Permutations(smplx) ==
  LET n == Len(smplx)
      perms == {p \in [1..n -> 1..n] : \A a, b \in 1..n : a # b => p[a] # p[b]}
  IN  {[j \in 1..n |-> smplx[p[j]]] : p \in perms}

\* sortSimplex with the call of sort.Slice left out.
sortSimplexSkipped(smplx) == {smplx}

\* sortSimplex with the comparison turned round (F[i] > F[j]).
sortSimplexDescending(smplx) ==
  {s \in Permutations(smplx) :
     \A a, b \in 1..Len(s) : a < b => RLeq(s[b].F, s[a].F)}

\* sortSimplex(smplx): sort.Slice with the comparison F[i] < F[j].  sort.Slice
\* is not a stable sort, so every rearrangement in ascending order of F is a
\* possible result.
sortSimplex(smplx) ==
  IF Len(smplx) < 2 THEN {smplx}
  ELSE {s \in Permutations(smplx) : IsAscending(s)}

(* ------------------------ MakeSimplexAboutPoint ------------------------ *)
\* Perturbed with the slip x1[i] = dx[i] for x1[i] += dx[i].
PerturbedAssigned(x0, dx, i) ==
  [j \in 1..Len(x0) |-> IF j = i THEN dx[j] ELSE x0[j]]

\* x0 with component i moved by dx[i] (the inner loop copying x0 into x1).
Perturbed(x0, dx, i) ==
  [j \in 1..Len(x0) |-> IF j = i THEN RAdd(x0[j], dx[j]) ELSE x0[j]]

\* MakeSimplexError with the slip anyZero = (dx[i] == 0.0) in the loop, so
\* that the last component alone decides.
MakeSimplexErrorLastOnly(x0, dx) ==
  IF Len(x0) = 0 THEN "Zero number of parameters."
  ELSE IF Len(x0) # Len(dx) THEN "len(dx) did not match len(x)"
  ELSE IF dx[Len(x0)] = RZero THEN "One or more zero value in dx."
  ELSE "nil"

\* The error MakeSimplexAboutPoint returns before any evaluation, or "nil".
MakeSimplexError(x0, dx) ==
  IF Len(x0) = 0 THEN "Zero number of parameters."
  ELSE IF Len(x0) # Len(dx) THEN "len(dx) did not match len(x)"
  ELSE IF \E i \in 1..Len(x0) : dx[i] = RZero THEN "One or more zero value in dx."
  ELSE "nil"

\* The points MakeSimplexAboutPoint evaluates, in the order of its calls of f.
MakeSimplexPoints(x0, dx) ==
  [v \in 1..(Len(x0) + 1) |->
     IF v = 1 THEN NewVectorFromArray(x0) ELSE Perturbed(x0, dx, v - 1)]

\* MakeSimplexAboutPoint(f, x0, dx) up to its call of sortSimplex: the
\* vertices in construction order, the count nfe, the error, and the points
\* f was called on.
MakeSimplexAboutPoint(f, x0, dx) ==
  LET e == MakeSimplexError(x0, dx)
      pts == MakeSimplexPoints(x0, dx)
  IN  IF e # "nil" THEN [smplx |-> <<>>, nfe |-> 0, err |-> e, calls |-> <<>>]
      ELSE [smplx |-> [v \in 1..Len(pts) |-> [X |-> pts[v], F |-> Eval(f, pts[v])]],
            nfe |-> 1 + Len(x0),
            err |-> "nil",
            calls |-> pts]

(* -------------------------------- fStats ------------------------------- *)
\* fStats with the second loop stopping one vertex early (i < nv-1).
fStatsShortLoop(smplx) ==
  LET nv == Len(smplx)
      mean == RMul(SumSeq([v \in 1..nv |-> smplx[v].F]), Rat(1, nv))
      sq == [v \in 1..(nv - 1) |-> RMul(RSub(smplx[v].F, mean), RSub(smplx[v].F, mean))]
  IN  IF nv = 0 THEN [mean |-> RZero, variance |-> RZero, err |-> "No points in simplex"]
      ELSE [mean |-> mean, variance |-> RMul(SumSeq(sq), Rat(1, nv)), err |-> "nil"]

\* fStats(smplx): the mean and the variance of the F values (the code
\* returns the square root of the variance).
fStats(smplx) ==
  LET nv == Len(smplx)
      mean == RMul(SumSeq([v \in 1..nv |-> smplx[v].F]), Rat(1, nv))
      sq == [v \in 1..nv |-> RMul(RSub(smplx[v].F, mean), RSub(smplx[v].F, mean))]
  IN  IF nv = 0 THEN [mean |-> RZero, variance |-> RZero, err |-> "No points in simplex"]
      ELSE [mean |-> mean, variance |-> RMul(SumSeq(sq), Rat(1, nv)), err |-> "nil"]

\* sdev < tol for sdev = Sqrt(variance) >= 0.
SdevBelow(variance, tol) == RLess(RZero, tol) /\ RLess(variance, RMul(tol, tol))

(* ----------------------------- replaceVertex --------------------------- *)
\* CountAbove with >= for >: the vertices with F equal to fRefl count too.
CountAtOrAbove(vs, m, fRefl) == Cardinality({j \in 1..m : RLeq(fRefl, vs[j].F)})

\* How many of the vertices vs[1..m] have F greater than fRefl.
CountAbove(vs, m, fRefl) == Cardinality({j \in 1..m : RLess(fRefl, vs[j].F)})

\* vs with slot i overwritten by the vertex {x, fx}.
SetVertex(vs, i, x, fx) == [vs EXCEPT ![i] = [X |-> x, F |-> fx]]

\* replaceVertex keeping the extended point without comparing it with the
\* reflected one.
replaceVertexKeepsExtension(vs, f, i, xMid, kr, ke, kc) ==
  LET fMin == vs[1].F
      xHigh == vs[i].X
      fHigh == vs[i].F
      n == Len(xHigh)
      xRefl == Blend(NewVector(n), xMid, xHigh, RAdd(ROne, kr), RNeg(kr)).z
      fRefl == Eval(f, xRefl)
      xExt == Blend(NewVector(n), xMid, xRefl, RSub(ROne, ke), ke).z
      fExt == Eval(f, xExt)
      count == CountAbove(vs, n + 1, fRefl)
      xCon == Blend(NewVector(n), xMid, xHigh, RSub(ROne, kc), kc).z
      fCon == Eval(f, xCon)
  IN  IF RLess(fRefl, fMin)
      THEN IF TRUE
           THEN [Vertices |-> SetVertex(vs, i, xExt, fExt), success |-> TRUE,
                 nfe |-> 2, calls |-> <<xRefl, xExt>>, move |-> "extend"]
           ELSE [Vertices |-> SetVertex(vs, i, xRefl, fRefl), success |-> TRUE,
                 nfe |-> 2, calls |-> <<xRefl, xExt>>, move |-> "reflect"]
      ELSE IF count <= 1
           THEN IF RLess(fCon, fHigh)
                THEN [Vertices |-> SetVertex(vs, i, xCon, fCon), success |-> TRUE,
                      nfe |-> 2, calls |-> <<xRefl, xCon>>, move |-> "contract"]
                ELSE [Vertices |-> vs, success |-> FALSE,
                      nfe |-> 2, calls |-> <<xRefl, xCon>>, move |-> "none"]
           ELSE [Vertices |-> SetVertex(vs, i, xRefl, fRefl), success |-> TRUE,
                 nfe |-> 1, calls |-> <<xRefl>>, move |-> "reflect"]

\* replaceVertex accepting a contracted point that is no better than the
\* point it replaces (fCon <= fHigh).
replaceVertexAcceptsEqual(vs, f, i, xMid, kr, ke, kc) ==
  LET fMin == vs[1].F
      xHigh == vs[i].X
      fHigh == vs[i].F
      n == Len(xHigh)
      xRefl == Blend(NewVector(n), xMid, xHigh, RAdd(ROne, kr), RNeg(kr)).z
      fRefl == Eval(f, xRefl)
      xExt == Blend(NewVector(n), xMid, xRefl, RSub(ROne, ke), ke).z
      fExt == Eval(f, xExt)
      count == CountAbove(vs, n + 1, fRefl)
      xCon == Blend(NewVector(n), xMid, xHigh, RSub(ROne, kc), kc).z
      fCon == Eval(f, xCon)
  IN  IF RLess(fRefl, fMin)
      THEN IF RLess(fExt, fRefl)
           THEN [Vertices |-> SetVertex(vs, i, xExt, fExt), success |-> TRUE,
                 nfe |-> 2, calls |-> <<xRefl, xExt>>, move |-> "extend"]
           ELSE [Vertices |-> SetVertex(vs, i, xRefl, fRefl), success |-> TRUE,
                 nfe |-> 2, calls |-> <<xRefl, xExt>>, move |-> "reflect"]
      ELSE IF count <= 1
           THEN IF RLeq(fCon, fHigh)
                THEN [Vertices |-> SetVertex(vs, i, xCon, fCon), success |-> TRUE,
                      nfe |-> 2, calls |-> <<xRefl, xCon>>, move |-> "contract"]
                ELSE [Vertices |-> vs, success |-> FALSE,
                      nfe |-> 2, calls |-> <<xRefl, xCon>>, move |-> "none"]
           ELSE [Vertices |-> SetVertex(vs, i, xRefl, fRefl), success |-> TRUE,
                 nfe |-> 1, calls |-> <<xRefl>>, move |-> "reflect"]

\* m.replaceVertex(i, xMid) on the simplex vs with objective f and the
\* coefficients kr, ke, kc: the simplex afterwards, the flag and the count
\* returned, the points f was called on, and the move that was made.
replaceVertex(vs, f, i, xMid, kr, ke, kc) ==
  LET fMin == vs[1].F
      xHigh == vs[i].X
      fHigh == vs[i].F
      n == Len(xHigh)
      xRefl == Blend(NewVector(n), xMid, xHigh, RAdd(ROne, kr), RNeg(kr)).z
      fRefl == Eval(f, xRefl)
      xExt == Blend(NewVector(n), xMid, xRefl, RSub(ROne, ke), ke).z
      fExt == Eval(f, xExt)
      count == CountAbove(vs, n + 1, fRefl)
      xCon == Blend(NewVector(n), xMid, xHigh, RSub(ROne, kc), kc).z
      fCon == Eval(f, xCon)
  IN  IF RLess(fRefl, fMin)
      THEN IF RLess(fExt, fRefl)
           THEN [Vertices |-> SetVertex(vs, i, xExt, fExt), success |-> TRUE,
                 nfe |-> 2, calls |-> <<xRefl, xExt>>, move |-> "extend"]
           ELSE [Vertices |-> SetVertex(vs, i, xRefl, fRefl), success |-> TRUE,
                 nfe |-> 2, calls |-> <<xRefl, xExt>>, move |-> "reflect"]
      ELSE IF count <= 1
           THEN IF RLess(fCon, fHigh)
                THEN [Vertices |-> SetVertex(vs, i, xCon, fCon), success |-> TRUE,
                      nfe |-> 2, calls |-> <<xRefl, xCon>>, move |-> "contract"]
                ELSE [Vertices |-> vs, success |-> FALSE,
                      nfe |-> 2, calls |-> <<xRefl, xCon>>, move |-> "none"]
           ELSE [Vertices |-> SetVertex(vs, i, xRefl, fRefl), success |-> TRUE,
                 nfe |-> 1, calls |-> <<xRefl>>, move |-> "reflect"]

(* ------------------------- contractAboutBestPoint ---------------------- *)
\* HalfWay without the second statement of the loop: F is not evaluated again.
HalfWayStale(f, xMin, v) ==
  [X |-> Blend(v.X, xMin, v.X, RHalf, RHalf).z, F |-> v.F]

\* HalfWay with the weights 0.5 and 1.0 for 0.5 and 0.5.
HalfWayUnweighted(f, xMin, v) ==
  LET x == Blend(v.X, xMin, v.X, RHalf, ROne).z
  IN  [X |-> x, F |-> Eval(f, x)]

\* Vertex v of vs moved half-way to the point xMin and evaluated again.
HalfWay(f, xMin, v) ==
  LET x == Blend(v.X, xMin, v.X, RHalf, RHalf).z
  IN  [X |-> x, F |-> Eval(f, x)]

\* contractAboutBestPoint adding nv, the best vertex included, to
\* NFEvaluations.
contractCountsAll(vs, f) ==
  LET nv == Len(vs)
      xMin == vs[1].X
      moved == [v \in 1..nv |-> IF v = 1 THEN vs[1] ELSE HalfWay(f, xMin, vs[v])]
  IN  [Vertices |-> moved,
       nfe |-> nv,
       calls |-> [v \in 1..(nv - 1) |-> moved[v + 1].X]]

\* m.contractAboutBestPoint(): the simplex afterwards, the number added to
\* NFEvaluations, and the points f was called on.
contractAboutBestPoint(vs, f) ==
  LET nv == Len(vs)
      xMin == vs[1].X
      moved == [v \in 1..nv |-> IF v = 1 THEN vs[1] ELSE HalfWay(f, xMin, vs[v])]
  IN  [Vertices |-> moved,
       nfe |-> nv - 1,
       calls |-> [v \in 1..(nv - 1) |-> moved[v + 1].X]]

(* -------------------------------- inputs ------------------------------- *)
\* Sequences of length 0..MaxN over the set S.
SeqsUpTo(S) == UNION {[1..n -> S] : n \in 0..MaxN}

\* Arguments x0 and dx of a direct call of MakeSimplexAboutPoint.
PointArgs == SeqsUpTo({RZero, RTwo})
StepArgs == SeqsUpTo({RZero, ROne, RInt(-1)})

\* Arguments (x, dx) of a call of MinimizeFromPoint: for every N a start at
\* the origin with unit steps, a start at (1, .., N) with steps of -1 and a
\* start at (1, .., 1), the minimum of obj1, with unit steps; for N = 2 a
\* start at (2, 2) with steps of 2; for N = 3, whatever MaxN, a start at
\* (0, 1, 1) with steps (1, 2, 2), the least N with a third attempt in an
\* iteration; and the three kinds of invalid arguments.
RunArgs ==
  {<<<<>>, <<>>>>, <<<<RZero>>, <<RZero>>>>, <<<<RZero>>, <<>>>>} \cup
  UNION {{<<[j \in 1..n |-> RZero], [j \in 1..n |-> ROne]>>,
          <<[j \in 1..n |-> RInt(j)], [j \in 1..n |-> RInt(-1)]>>,
          <<[j \in 1..n |-> ROne], [j \in 1..n |-> ROne]>>} : n \in 1..MaxN} \cup
  {<<[j \in 1..n |-> RTwo], [j \in 1..n |-> RTwo]>> : n \in {2} \cap (1..MaxN)} \cup
  {<<<<RZero, ROne, ROne>>, <<ROne, RTwo, RTwo>>>>}

\* Operands of a direct call of a vector operation.
VectorArgs == SeqsUpTo({ROne, RTwo})

\* Points, F values and tolerances of a direct call of the comparisons.
CompareArgs == SeqsUpTo({RZero, ROne})
CompareValues == {RZero, ROne, RTwo, RInt(-1)}
CompareTols == {RZero, RHalf, Rat(3, 4), ROne}

\* Values a caller gives the fields P, Steps, NFEvaluationsMax and Tol.
PValues == -1..(MaxN + 1)
StepsValues == 0..2
MaxValues == {0, MaxEvals}
TolValues == {RZero, RHalf}

(* -------------------------------- state -------------------------------- *)
VARIABLES
  pc,                \* where the caller or the running method is
  F,                 \* Minimizer.F, the objective
  Vertices,          \* Minimizer.Vertices, the simplex
  P,                 \* Minimizer.P
  Steps,             \* Minimizer.Steps
  NFEvaluationsMax,  \* Minimizer.NFEvaluationsMax
  NFEvaluations,     \* Minimizer.NFEvaluations
  Nrestarts,         \* Minimizer.Nrestarts
  Kreflect,          \* Minimizer.Kreflect
  Kextend,           \* Minimizer.Kextend
  Kcontract,         \* Minimizer.Kcontract
  Tol,               \* Minimizer.Tol
  step,              \* loop variable step of TakeSteps
  i,                 \* loop variable i of TakeSteps
  vMid,              \* vMid of TakeSteps
  anySuccess,        \* anySuccess of TakeSteps
  tsErr,             \* what the last call of TakeSteps returned
  err,               \* what MinimizeFromPoint returned
  x0,                \* argument x0 (x) of the last call
  dx,                \* argument dx of the last call
  made,              \* what a direct call of MakeSimplexAboutPoint returned
  p,                 \* argument p of a direct call of Centroid
  cen,               \* what a direct call of Centroid returned
  ncalls,            \* number of calls of the objective made so far
  vec,               \* a direct call of a vector operation and what it gave
  eq,                \* a direct call of the ApproxEquals functions and what it gave
  iterStart,         \* m.Vertices as the current iteration of TakeSteps found it
  last               \* what the last call of replaceVertex was given and returned

vars ==
  <<pc, F, Vertices, P, Steps, NFEvaluationsMax, NFEvaluations, Nrestarts,
    Kreflect, Kextend, Kcontract, Tol, step, i, vMid, anySuccess, tsErr, err,
    x0, dx, made, p, cen, ncalls, vec, eq, iterStart, last>>

minimizerFields ==
  <<F, Vertices, P, Steps, NFEvaluationsMax, NFEvaluations, Nrestarts,
    Kreflect, Kextend, Kcontract, Tol>>
coefficients == <<F, Kreflect, Kextend, Kcontract>>
config == <<P, Steps, NFEvaluationsMax, Tol>>
locals == <<step, i, vMid, anySuccess, tsErr, iterStart, last>>
direct == <<made, p, cen, vec, eq>>

NoVertex == [X |-> <<>>, F |-> RZero]

\* No vector operation has been called.
NoVectorCall ==
  [version |-> "none", op |-> "none", z |-> <<>>, a |-> <<>>, b |-> <<>>,
   out |-> <<>>, s |-> RZero, err |-> "none"]

\* No comparison has been called.
NoComparison ==
  [v |-> NoVertex, other |-> NoVertex, tol |-> RZero,
   numbers |-> FALSE, vectors |-> FALSE, vertices |-> FALSE]

\* No call of replaceVertex has been made.
NoCall ==
  [slot |-> 0, before |-> <<>>, success |-> FALSE, nfe |-> 0, calls |-> <<>>,
   move |-> "none"]

\* NewMinimizer(f) for an objective f of the model.
Init ==
  /\ pc = "new"
  /\ F \in Objectives
  /\ Vertices = <<>>
  /\ P = 1
  /\ Steps = 20
  /\ NFEvaluationsMax = 300
  /\ NFEvaluations = 0
  /\ Nrestarts = 0
  /\ Kreflect = ROne
  /\ Kextend = RTwo
  /\ Kcontract = RHalf
  /\ Tol = Rat(1, 1000000)
  /\ step = 0
  /\ i = 0
  /\ vMid = NoVertex
  /\ anySuccess = FALSE
  /\ tsErr = "none"
  /\ err = "none"
  /\ x0 = <<>>
  /\ dx = <<>>
  /\ made = [smplx |-> <<>>, nfe |-> 0, err |-> "none"]
  /\ p = 0
  /\ cen = [c |-> NoVertex, err |-> "none"]
  /\ ncalls = 0
  /\ vec = NoVectorCall
  /\ eq = NoComparison
  /\ iterStart = <<>>
  /\ last = NoCall

(* ------------------------------- actions ------------------------------- *)
\* The caller assigns the exported fields P, Steps, NFEvaluationsMax and Tol
\* of a new Minimizer, as the tests do before minimizing.
SetFields ==
  /\ pc = "new"
  /\ P' \in PValues
  /\ Steps' \in StepsValues
  /\ NFEvaluationsMax' \in MaxValues
  /\ Tol' \in TolValues
  /\ pc' = "idle"
  /\ UNCHANGED <<coefficients, Vertices, NFEvaluations, Nrestarts, locals, err,
                 x0, dx, direct, ncalls>>

\* A direct call MakeSimplexAboutPoint(F, a, d).
CallMakeSimplexAboutPoint ==
  /\ pc = "new"
  /\ \E a \in PointArgs, d \in StepArgs :
       LET r == MakeSimplexAboutPoint(F, a, d)
       IN  /\ x0' = a
           /\ dx' = d
           /\ \E s \in (IF r.err = "nil" THEN sortSimplex(r.smplx) ELSE {<<>>}) :
                made' = [smplx |-> s, nfe |-> r.nfe, err |-> r.err]
           /\ ncalls' = ncalls + Len(r.calls)
  /\ pc' = "made"
  /\ UNCHANGED <<minimizerFields, locals, err, p, cen, vec, eq>>

\* A direct call Centroid(made.smplx, q) on what MakeSimplexAboutPoint
\* returned (nil when it returned an error).
CallCentroid ==
  /\ pc = "made"
  /\ \E q \in -1..(MaxN + 2) :
       /\ p' = q
       /\ cen' = Centroid(made.smplx, q)
  /\ pc' = "centroid"
  /\ UNCHANGED <<minimizerFields, locals, err, x0, dx, made, ncalls, vec, eq>>

\* A direct call sortSimplex(made.smplx) on the simplex that
\* MakeSimplexAboutPoint returned, which that function has sorted already.
CallSortSimplex ==
  /\ pc = "made"
  /\ made.err = "nil"
  /\ \E s \in sortSimplex(made.smplx) : made' = [made EXCEPT !.smplx = s]
  /\ pc' = "sorted"
  /\ UNCHANGED <<minimizerFields, locals, err, x0, dx, p, cen, ncalls, vec, eq>>

\* A direct call of a vector operation, of either text of vector.go, on a
\* new destination of any length and two operands.
CallVectorOp ==
  /\ pc = "new"
  /\ \E version \in Versions, op \in VectorOps, n \in 0..MaxN,
        a \in VectorArgs, b \in VectorArgs :
       LET z == NewVector(n)
           r == VectorOp(version, op, z, a, b)
       IN  vec' = [version |-> version, op |-> op, z |-> z, a |-> a, b |-> b,
                   out |-> r.z, s |-> r.s, err |-> r.err]
  /\ pc' = "vector"
  /\ UNCHANGED <<minimizerFields, locals, err, x0, dx, made, p, cen, ncalls, eq>>

\* Direct calls approxEquals(v.F, other.F, tol), v.X.ApproxEquals(other.X,
\* tol) and v.ApproxEquals(other, tol) on two vertices.
CallApproxEquals ==
  /\ pc = "new"
  /\ \E a \in CompareArgs, b \in CompareArgs, fa \in CompareValues,
        fb \in CompareValues, tol \in CompareTols :
       LET v == [X |-> a, F |-> fa]
           other == [X |-> b, F |-> fb]
       IN  eq' = [v |-> v, other |-> other, tol |-> tol,
                  numbers |-> approxEquals(fa, fb, tol),
                  vectors |-> VectorApproxEquals(a, b, tol),
                  vertices |-> VertexApproxEquals(v, other, tol)]
  /\ pc' = "compared"
  /\ UNCHANGED <<minimizerFields, locals, err, x0, dx, made, p, cen, ncalls, vec>>

\* MinimizeFromPoint(x, d) up to its loop: the initial simplex.
MinimizeFromPoint ==
  /\ pc = "idle"
  /\ \E arg \in RunArgs :
       LET r == MakeSimplexAboutPoint(F, arg[1], arg[2])
       IN  /\ x0' = arg[1]
           /\ dx' = arg[2]
           /\ ncalls' = ncalls + Len(r.calls)
           /\ IF r.err # "nil"
              THEN /\ Vertices' = <<>>
                   /\ err' = "Error while making initial simplex"
                   /\ pc' = "done"
                   /\ UNCHANGED NFEvaluations
              ELSE /\ Vertices' \in sortSimplex(r.smplx)
                   /\ NFEvaluations' = NFEvaluations + r.nfe
                   /\ pc' = "mfp_loop"
                   /\ UNCHANGED err
  /\ UNCHANGED <<coefficients, config, Nrestarts, locals, direct>>

\* MinimizeLoop without the loop condition: every pass calls TakeSteps.
MinimizeLoopUnbounded ==
  /\ pc = "mfp_loop"
  /\ pc' = "ts_loop"
  /\ step' = 0
  /\ UNCHANGED <<minimizerFields, i, vMid, anySuccess, tsErr, err, x0, dx, direct, ncalls,
                 iterStart, last>>

\* The loop condition of MinimizeFromPoint and its call of TakeSteps.
MinimizeLoop ==
  /\ pc = "mfp_loop"
  /\ IF NFEvaluations < NFEvaluationsMax
     THEN /\ pc' = "ts_loop"
          /\ step' = 0
          /\ UNCHANGED err
     ELSE /\ pc' = "done"
          /\ err' = "nil"
          /\ UNCHANGED step
  /\ UNCHANGED <<minimizerFields, i, vMid, anySuccess, tsErr, x0, dx, direct, ncalls,
                 iterStart, last>>

\* The head of an iteration of TakeSteps: the loop condition and the centroid.
TakeStepsLoop ==
  /\ pc = "ts_loop"
  /\ IF step < Steps
     THEN LET c == Centroid(Vertices, P)
          IN  CASE c.err = "nil" ->
                     /\ vMid' = c.c
                     /\ anySuccess' = FALSE
                     /\ i' = 0
                     /\ iterStart' = Vertices
                     /\ pc' = IF 0 < P THEN "replace" ELSE "shrink"
                     /\ UNCHANGED tsErr
                [] c.err = "panic" ->
                     /\ pc' = "panic"
                     /\ UNCHANGED <<vMid, anySuccess, i, tsErr, iterStart>>
                [] OTHER ->
                     /\ tsErr' = "Error while computing centroid"
                     /\ pc' = "fstats"
                     /\ UNCHANGED <<vMid, anySuccess, i, iterStart>>
     ELSE /\ tsErr' = "nil"
          /\ pc' = "fstats"
          /\ UNCHANGED <<vMid, anySuccess, i, iterStart>>
  /\ UNCHANGED <<minimizerFields, step, err, x0, dx, direct, ncalls, last>>

\* ReplaceStep with a sort of the simplex after every attempt.
ReplaceStepSorts ==
  /\ pc = "replace"
  /\ LET r == replaceVertex(Vertices, F, Len(Vertices) - i, vMid.X,
                            Kreflect, Kextend, Kcontract)
     IN  /\ Vertices' \in sortSimplex(r.Vertices)
         /\ anySuccess' = (anySuccess \/ r.success)
         /\ NFEvaluations' = NFEvaluations + r.nfe
         /\ ncalls' = ncalls + Len(r.calls)
         /\ last' = [slot |-> Len(Vertices) - i, before |-> Vertices,
                     success |-> r.success, nfe |-> r.nfe, calls |-> r.calls,
                     move |-> r.move]
  /\ i' = i + 1
  /\ pc' = IF i + 1 < P THEN "replace" ELSE "shrink"
  /\ UNCHANGED <<coefficients, config, Nrestarts, step, vMid, tsErr, err, x0, dx, direct,
                 iterStart>>

\* ReplaceStep counting the slots from the front: replaceVertex on slot i.
ReplaceStepFromFront ==
  /\ pc = "replace"
  /\ LET r == replaceVertex(Vertices, F, i + 1, vMid.X, Kreflect, Kextend, Kcontract)
     IN  /\ Vertices' = r.Vertices
         /\ anySuccess' = (anySuccess \/ r.success)
         /\ NFEvaluations' = NFEvaluations + r.nfe
         /\ ncalls' = ncalls + Len(r.calls)
         /\ last' = [slot |-> i + 1, before |-> Vertices,
                     success |-> r.success, nfe |-> r.nfe, calls |-> r.calls,
                     move |-> r.move]
  /\ i' = i + 1
  /\ pc' = IF i + 1 < P THEN "replace" ELSE "shrink"
  /\ UNCHANGED <<coefficients, config, Nrestarts, step, vMid, tsErr, err, x0, dx, direct,
                 iterStart>>

\* One pass of the inner loop of TakeSteps: replaceVertex on slot nv-1-i.
ReplaceStep ==
  /\ pc = "replace"
  /\ LET r == replaceVertex(Vertices, F, Len(Vertices) - i, vMid.X,
                            Kreflect, Kextend, Kcontract)
     IN  /\ Vertices' = r.Vertices
         /\ anySuccess' = (anySuccess \/ r.success)
         /\ NFEvaluations' = NFEvaluations + r.nfe
         /\ ncalls' = ncalls + Len(r.calls)
         /\ last' = [slot |-> Len(Vertices) - i, before |-> Vertices,
                     success |-> r.success, nfe |-> r.nfe, calls |-> r.calls,
                     move |-> r.move]
  /\ i' = i + 1
  /\ pc' = IF i + 1 < P THEN "replace" ELSE "shrink"
  /\ UNCHANGED <<coefficients, config, Nrestarts, step, vMid, tsErr, err, x0, dx, direct,
                 iterStart>>

\* ShrinkStep without the test of anySuccess: every iteration shrinks.
ShrinkStepAlways ==
  /\ pc = "shrink"
  /\ LET r == contractAboutBestPoint(Vertices, F)
     IN  /\ Vertices' = r.Vertices
         /\ NFEvaluations' = NFEvaluations + r.nfe
         /\ ncalls' = ncalls + Len(r.calls)
         /\ Nrestarts' = Nrestarts + 1
  /\ pc' = "sort"
  /\ UNCHANGED <<coefficients, config, locals, err, x0, dx, direct>>

\* After the inner loop: contractAboutBestPoint when nothing was replaced.
ShrinkStep ==
  /\ pc = "shrink"
  /\ IF ~anySuccess
     THEN LET r == contractAboutBestPoint(Vertices, F)
          IN  /\ Vertices' = r.Vertices
              /\ NFEvaluations' = NFEvaluations + r.nfe
              /\ ncalls' = ncalls + Len(r.calls)
              /\ Nrestarts' = Nrestarts + 1
     ELSE UNCHANGED <<Vertices, NFEvaluations, ncalls, Nrestarts>>
  /\ pc' = "sort"
  /\ UNCHANGED <<coefficients, config, locals, err, x0, dx, direct>>

\* The end of an iteration of TakeSteps: sortSimplex and step++.
SortStep ==
  /\ pc = "sort"
  /\ Vertices' \in sortSimplex(Vertices)
  /\ step' = step + 1
  /\ pc' = "ts_loop"
  /\ UNCHANGED <<coefficients, config, NFEvaluations, Nrestarts, i, vMid, anySuccess,
                 tsErr, err, x0, dx, direct, ncalls, iterStart, last>>

\* MinimizeFromPoint after TakeSteps returned (its error is not looked at):
\* fStats and the convergence test.
FStatsStep ==
  /\ pc = "fstats"
  /\ LET st == fStats(Vertices)
     IN  IF st.err # "nil"
         THEN /\ err' = "Error while computing function stats"
              /\ pc' = "done"
         ELSE IF SdevBelow(st.variance, Tol)
         THEN /\ err' = "nil"
              /\ pc' = "done"
         ELSE /\ pc' = "mfp_loop"
              /\ UNCHANGED err
  /\ UNCHANGED <<minimizerFields, locals, x0, dx, direct, ncalls>>

Next ==
  \/ SetFields
  \/ CallMakeSimplexAboutPoint
  \/ CallCentroid
  \/ CallSortSimplex
  \/ CallVectorOp
  \/ CallApproxEquals
  \/ MinimizeFromPoint
  \/ MinimizeLoop
  \/ TakeStepsLoop
  \/ ReplaceStep
  \/ ShrinkStep
  \/ SortStep
  \/ FStatsStep

Spec == Init /\ [][Next]_vars

\* MinimizeFromPoint is running: it has been called and has not returned.
Running == pc \in {"mfp_loop", "ts_loop", "replace", "shrink", "sort", "fstats"}

\* The running method moves on: to another place, or once more round the
\* inner loop of TakeSteps.  Every step of MinimizeLoop, TakeStepsLoop,
\* ReplaceStep, ShrinkStep, SortStep and FStatsStep is such a step, and one
\* of these is enabled whenever the method is running.
Advance ==
  /\ Running
  /\ \/ /\ pc' \in {"mfp_loop", "ts_loop", "replace", "shrink", "sort", "fstats",
                    "done", "panic"}
        /\ pc' # pc
        /\ i' \in {0, i}
     \/ /\ pc' = pc
        /\ i' = i + 1

\* The position of the running method.
position == <<pc, i>>

\* A method that has been called takes its next step as long as it has one
\* (one thread of control, nothing to wait for); the caller need not call
\* anything.
FairSpec == Spec /\ WF_position(Advance)

(* ============================== properties ============================= *)
\* The arguments of the last call are valid: N >= 1, dx as long as x0, and
\* no component of dx is zero.
ValidArgs ==
  /\ Len(x0) >= 1
  /\ Len(dx) = Len(x0)
  /\ \A j \in 1..Len(dx) : dx[j][1] # 0

\* Vertex w is x0 itself (axis 0) or x0 with only component axis moved by
\* dx[axis].
IsStartVertex(w, axis) ==
  /\ Len(w.X) = Len(x0)
  /\ \A j \in 1..Len(x0) :
       IF j = axis THEN RSub(w.X[j], x0[j]) = dx[j] ELSE w.X[j] = x0[j]

\* An error value was returned (the function neither succeeded nor panicked).
IsError(e) == e \notin {"nil", "panic", "none"}

\* C1: for valid arguments MakeSimplexAboutPoint succeeds and returns N+1
\* vertices, x0 and one vertex per axis i equal to x0 with only component i
\* moved by dx[i], each with the objective value of its point, in ascending
\* order of F; it reports N+1 evaluations and has called the objective N+1
\* times.
C1_MakeSimplex ==
  (pc = "made" /\ ValidArgs) =>
    LET n == Len(x0)
    IN  /\ made.err = "nil"
        /\ Len(made.smplx) = n + 1
        /\ \E axis \in [1..(n + 1) -> 0..n] :
             /\ \A a, b \in 1..(n + 1) : a # b => axis[a] # axis[b]
             /\ \A v \in 1..(n + 1) : IsStartVertex(made.smplx[v], axis[v])
        /\ \A v \in 1..(n + 1) : made.smplx[v].F = Eval(F, made.smplx[v].X)
        /\ \A v \in 1..n : ~RLess(made.smplx[v + 1].F, made.smplx[v].F)
        /\ made.nfe = n + 1
        /\ ncalls = n + 1

\* A call with MaxN parameters succeeded and the sort moved x0 from the front.
C1_Witness ==
  /\ pc = "made"
  /\ ValidArgs
  /\ Len(x0) = MaxN
  /\ made.nfe = MaxN + 1
  /\ made.smplx[1].X # x0

\* C2: with an empty x0, with dx of another length than x0, or with a zero
\* component of dx, MakeSimplexAboutPoint returns an error and no simplex
\* without calling the objective (the count it reports is 0); and
\* MinimizeFromPoint then returns an error with nothing evaluated.
C2_InvalidArgs ==
  /\ (pc = "made" /\ ~ValidArgs) =>
       /\ IsError(made.err)
       /\ made.smplx = <<>>
       /\ made.nfe = 0
       /\ ncalls = 0
  /\ (pc = "done" /\ ~ValidArgs) =>
       /\ IsError(err)
       /\ Vertices = <<>>
       /\ NFEvaluations = 0
       /\ ncalls = 0

\* A call was rejected for a zero component of dx that is not the last one.
C2_Witness ==
  /\ pc = "made"
  /\ Len(x0) = Len(dx)
  /\ Len(dx) >= 2
  /\ dx[1] = RZero
  /\ dx[Len(dx)] # RZero
  /\ IsError(made.err)

\* C3: Centroid returns an error and no vertex for an empty array and for
\* p >= the number of vertices; for 1 <= p <= N on a non-empty simplex it
\* returns no error.
C3_CentroidErrors ==
  (pc = "centroid") =>
    LET nv == Len(made.smplx)
    IN  /\ (nv = 0 \/ p >= nv) => (IsError(cen.err) /\ cen.c = <<>>)
        /\ (nv > 0 /\ 1 <= p /\ p <= nv - 1) => cen.err = "nil"

\* Centroid was called with p equal to the number of vertices of a simplex.
C3_Witness ==
  /\ pc = "centroid"
  /\ Len(made.smplx) >= 2
  /\ p = Len(made.smplx)
  /\ IsError(cen.err)

\* C4: a non-positive exclusion count is rejected: Centroid with p <= 0
\* returns an error, and a step batch with P <= 0 returns an error and
\* leaves the simplex and the counters alone.
C4_NonPositiveRejected ==
  /\ (pc = "centroid" /\ p <= 0) => IsError(cen.err)
  /\ (pc \in {"replace", "shrink", "sort", "panic"}) => P > 0

\* The mean of the first k vertices of va, component by component, is c:
\* k times c is their sum.
IsMeanOfFirst(c, va, k) ==
  /\ Len(c.X) = Len(va[1].X)
  /\ \A j \in 1..Len(c.X) :
       RMul(RInt(k), c.X[j]) = SumSeq([v \in 1..k |-> va[v].X[j]])
  /\ RMul(RInt(k), c.F) = SumSeq([v \in 1..k |-> va[v].F])

\* C5: for 1 <= p <= N, Centroid returns the vertex whose point is the mean
\* of the points of the first k = N+1-p vertices and whose F is the mean of
\* their F; so does the centroid that a step of TakeSteps computes from the
\* simplex, which it leaves as it was.
C5_CentroidIsMean ==
  /\ (pc = "centroid" /\ Len(made.smplx) > 0 /\ 1 <= p /\ p < Len(made.smplx)) =>
       IsMeanOfFirst(cen.c, made.smplx, Len(made.smplx) - p)
  /\ (pc = "replace" /\ i = 0) =>
       IsMeanOfFirst(vMid, Vertices, Len(Vertices) - P)

\* Centroid left out a worst vertex that differs from the mean of the others.
C5_Witness ==
  /\ pc = "centroid"
  /\ Len(made.smplx) = MaxN + 1
  /\ p = 1
  /\ cen.err = "nil"
  /\ made.smplx[MaxN + 1].X # cen.c.X
  /\ made.smplx[MaxN + 1].F # cen.c.F

\* Neighbouring vertices of smplx never decrease in F.
NonDecreasing(smplx) ==
  \A v \in 1..(Len(smplx) - 1) : ~RLess(smplx[v + 1].F, smplx[v].F)

\* C6: after the construction of the simplex and at the end of every
\* iteration of the step loop the simplex is in ascending order of F; when
\* TakeSteps and MinimizeFromPoint return, index 0 holds a minimum of F and
\* index N a maximum.
C6_SortedAfterEveryIteration ==
  /\ (pc \in {"made", "sorted"} /\ made.err = "nil") => NonDecreasing(made.smplx)
  /\ (pc \in {"mfp_loop", "ts_loop", "fstats"}) => NonDecreasing(Vertices)
  /\ (pc = "fstats" \/ (pc = "done" /\ err = "nil")) =>
       \A v \in 1..Len(Vertices) :
         /\ ~RLess(Vertices[v].F, Vertices[1].F)
         /\ ~RLess(Vertices[Len(Vertices)].F, Vertices[v].F)

\* MinimizeFromPoint returned after a run with a shrink whose final simplex
\* has different best and worst values.
C6_Witness ==
  /\ pc = "done"
  /\ err = "nil"
  /\ Nrestarts >= 1
  /\ Len(Vertices) = MaxN + 1
  /\ RLess(Vertices[1].F, Vertices[MaxN + 1].F)

\* The running minimizer is between two operations on its simplex.
BetweenOperations ==
  \/ pc \in {"mfp_loop", "ts_loop", "replace", "shrink", "sort", "fstats", "panic"}
  \/ (pc = "done" /\ err = "nil")

\* C7: between operations (after construction, after every replacement
\* attempt, after a shrink, after every sort) the simplex has N+1 vertices
\* of dimension N and every vertex has F = objective(X).
C7_VerticesEvaluated ==
  BetweenOperations =>
    /\ Len(Vertices) = Len(x0) + 1
    /\ \A v \in 1..Len(Vertices) :
         /\ Len(Vertices[v].X) = Len(x0)
         /\ Vertices[v].F = Eval(F, Vertices[v].X)

\* A shrink has just moved the vertices, to points with another value.
C7_Witness ==
  /\ pc = "sort"
  /\ ~anySuccess
  /\ Nrestarts >= 1
  /\ Vertices[2].F # Vertices[1].F
  /\ \A v \in 2..Len(Vertices) : Vertices[v].X # x0

\* The square of the Euclidean distance between the points a and b.
Dist2(a, b) ==
  SumSeq([j \in 1..Len(a) |-> RMul(RSub(a[j], b[j]), RSub(a[j], b[j]))])

\* C8: a shrink leaves vertex 0 as it is and halves the displacement of
\* every other vertex from the best point, hence its distance to it (the
\* square of the distance is divided by 4).
C8_ShrinkHalves ==
  [][(pc = "shrink" /\ ~anySuccess) =>
       /\ Len(Vertices') = Len(Vertices)
       /\ Vertices'[1] = Vertices[1]
       /\ \A v \in 2..Len(Vertices) :
            /\ \A j \in 1..Len(Vertices[v].X) :
                 RMul(RTwo, RSub(Vertices'[v].X[j], Vertices[1].X[j]))
                   = RSub(Vertices[v].X[j], Vertices[1].X[j])
            /\ RMul(RInt(4), Dist2(Vertices'[v].X, Vertices[1].X))
                 = Dist2(Vertices[v].X, Vertices[1].X)]_vars

\* A shrink has just moved a vertex that was away from the best point.
C8_Witness ==
  /\ pc = "sort"
  /\ ~anySuccess
  /\ Nrestarts >= 1
  /\ Len(Vertices) = MaxN + 1
  /\ \A v \in 2..Len(Vertices) : Vertices[v].X # Vertices[1].X

\* The sequences a and b hold the same vertices, each as often.
SameVertices(a, b) ==
  /\ Len(a) = Len(b)
  /\ \A w \in {a[v] : v \in 1..Len(a)} \cup {b[v] : v \in 1..Len(b)} :
       Cardinality({v \in 1..Len(a) : a[v] = w})
         = Cardinality({v \in 1..Len(b) : b[v] = w})

\* Sorting before (already in ascending order) gave after: the F values
\* stand as they stood, the vertices are the same, and every vertex whose F
\* no other vertex shares is where it was.
ResortKeepsValues(before, after) ==
  /\ SameVertices(before, after)
  /\ \A v \in 1..Len(before) : after[v].F = before[v].F
  /\ \A v \in 1..Len(before) :
       (\A w \in 1..Len(before) : w # v => before[w].F # before[v].F)
         => after[v] = before[v]

C10_Terminates ==
  (pc = "mfp_loop" /\ P >= 1 /\ Steps >= 1) ~> (pc = "done" /\ err = "nil")

\* The population variance of the F values of the simplex vs: the mean of
\* the squares less the square of the mean, over all the vertices.
PopulationVariance(vs) ==
  LET nv == Len(vs)
      meanF == RMul(SumSeq([v \in 1..nv |-> vs[v].F]), Rat(1, nv))
      meanSq == RMul(SumSeq([v \in 1..nv |-> RMul(vs[v].F, vs[v].F)]), Rat(1, nv))
  IN  RSub(meanSq, RMul(meanF, meanF))

\* The population standard deviation of F over the simplex is below Tol.
Converged ==
  /\ RLess(RZero, Tol)
  /\ RLess(PopulationVariance(Vertices), RMul(Tol, Tol))

\* C11: MinimizeFromPoint returns without error only from its convergence
\* test after a batch, when the population standard deviation of F over
\* all the vertices is below Tol, or from its loop condition, when
\* NFEvaluations >= NFEvaluationsMax; after a batch it stops if the
\* standard deviation is below Tol whatever the budget, and otherwise goes
\* on to another batch exactly when NFEvaluations < NFEvaluationsMax; so
\* when it has returned without error after at least one batch, the
\* standard deviation is below Tol or the budget is used up.
C11_StopsConvergedOrExhausted ==
  /\ [](pc = "done" /\ err = "nil" /\ tsErr # "none"
          => Converged \/ NFEvaluations >= NFEvaluationsMax)
  /\ [][/\ (pc # "done" /\ pc' = "done" /\ err' = "nil")
             => \/ pc = "fstats" /\ Converged
                \/ pc = "mfp_loop" /\ NFEvaluations >= NFEvaluationsMax
        /\ (pc = "fstats" /\ Converged) => (pc' = "done" /\ err' = "nil")
        /\ (pc = "fstats" /\ ~Converged) => pc' = "mfp_loop"
        /\ (pc = "mfp_loop") => (pc' = "ts_loop" <=> NFEvaluations < NFEvaluationsMax)
        /\ (pc' = "done") => Vertices' = Vertices \/ pc = "idle"]_vars

\* MinimizeFromPoint returned after a batch with budget left, the F values
\* of its simplex differing by less than the tolerance allows.
C11_Witness ==
  /\ pc = "done"
  /\ err = "nil"
  /\ tsErr = "nil"
  /\ NFEvaluations < NFEvaluationsMax
  /\ Vertices[1].F # Vertices[Len(Vertices)].F
  /\ Converged

\* MinimizeFromPoint has been called with valid arguments on a new minimizer.
InRun ==
  pc \in {"mfp_loop", "ts_loop", "replace", "shrink", "sort", "fstats", "panic", "done"}
    /\ Len(Vertices) > 0

\* The larger of the integers a and b.
Max2(a, b) == IF a >= b THEN a ELSE b

\* The most evaluations one iteration of TakeSteps makes: two for each of
\* the P attempts and N for a shrink.
PerIteration == 2 * Max2(P, 0) + Len(x0)

\* C12 as claimed: in a run of MinimizeFromPoint on a new minimizer neither
\* the number of calls of the objective nor NFEvaluations ever exceeds
\* NFEvaluationsMax.
C12_NeverAboveMax ==
  InRun => (NFEvaluations <= NFEvaluationsMax /\ ncalls <= NFEvaluationsMax)

\* C12 as amended: NFEvaluationsMax is a threshold tested between batches.
\* The construction makes its N+1 calls whatever the maximum, a batch is
\* started only while NFEvaluations < NFEvaluationsMax, and a batch makes
\* at most Steps*(2P+N) calls; so the calls made and NFEvaluations never
\* exceed the larger of N+1 and NFEvaluationsMax - 1 + Steps*(2P+N).
C12_BoundedOvershoot ==
  /\ [](InRun =>
          LET most == Max2(Len(x0) + 1, NFEvaluationsMax - 1 + Steps * PerIteration)
          IN  NFEvaluations <= most /\ ncalls <= most)
  /\ [][(pc = "mfp_loop" /\ pc' = "ts_loop")
          => NFEvaluations < NFEvaluationsMax]_vars

\* MinimizeFromPoint returned after batches that took the count past a
\* positive maximum.
C12_Witness ==
  /\ pc = "done"
  /\ err = "nil"
  /\ tsErr = "nil"
  /\ NFEvaluationsMax > 0
  /\ NFEvaluations > NFEvaluationsMax
  /\ ncalls = NFEvaluations

\* What replaceVertex returns for slot s on the simplex as the current
\* iteration found it, with the centroid of the iteration.
AttemptAtStart(s) ==
  replaceVertex(iterStart, F, s, vMid.X, Kreflect, Kextend, Kcontract)

\* C13: in an iteration with P > 1 the outcome of every replacement attempt
\* (accepted or not, the new vertex, the evaluations consumed) is what the
\* centroid and the simplex of the start of the iteration give for its
\* slot, whatever the attempts made before it in the iteration produced.
C13_AttemptsIndependent ==
  (pc \in {"replace", "shrink"} /\ P > 1 /\ i >= 1) =>
    LET r == AttemptAtStart(last.slot)
    IN  /\ last.success = r.success
        /\ last.nfe = r.nfe
        /\ Vertices[last.slot] = r.Vertices[last.slot]

\* The lengths a vector operation was called with are inconsistent.
InconsistentLengths ==
  IF vec.op = "VectorDot" THEN Len(vec.a) # Len(vec.b)
  ELSE Len(vec.z) # Len(vec.a) \/ Len(vec.z) # Len(vec.b)

\* C14: every vector operation on several vectors (Add, Sub, Blend or
\* AddWithScale, VectorDot) called with inconsistent lengths returns an
\* error value and leaves the destination as it was; it never panics.
C14_MismatchReturnsError ==
  (pc = "vector" /\ InconsistentLengths) =>
    /\ IsError(vec.err)
    /\ vec.out = vec.z

\* The test of the claim: |a-b| / (0.5*(|a|+|b|) + 1) <= tol, without a
\* division.
ClaimedClose(a, b, tol) ==
  RLeq(RAbs(RSub(a, b)), RMul(tol, RAdd(RMul(RHalf, RAdd(RAbs(a), RAbs(b))), ROne)))

\* The test |a-b| / (0.5*(|a|+|b|+1)) <= tol, without a division:
\* 2*|a-b| <= tol*(|a|+|b|+1).
Close(a, b, tol) ==
  RLeq(RMul(RTwo, RAbs(RSub(a, b))), RMul(tol, RAdd(RAdd(RAbs(a), RAbs(b)), ROne)))

\* C15 as claimed: two reals are approximately equal exactly when
\* |a-b| / (0.5*(|a|+|b|) + 1) <= tol, two vectors exactly when they have
\* the same length and every pair of components passes this test, and two
\* vertices exactly when their points and their F values do.
C15_ApproxEqualsAsClaimed ==
  (pc = "compared") =>
    LET sameX == /\ Len(eq.v.X) = Len(eq.other.X)
                 /\ \A j \in 1..Len(eq.v.X) :
                      ClaimedClose(eq.v.X[j], eq.other.X[j], eq.tol)
    IN  /\ eq.numbers <=> ClaimedClose(eq.v.F, eq.other.F, eq.tol)
        /\ eq.vectors <=> sameX
        /\ eq.vertices <=> (sameX /\ ClaimedClose(eq.v.F, eq.other.F, eq.tol))

\* C15 as amended: the same with the test |a-b| / (0.5*(|a|+|b|+1)) <= tol,
\* the 1 inside the factor 0.5.
C15_ApproxEquals ==
  (pc = "compared") =>
    LET sameX == /\ Len(eq.v.X) = Len(eq.other.X)
                 /\ \A j \in 1..Len(eq.v.X) :
                      Close(eq.v.X[j], eq.other.X[j], eq.tol)
    IN  /\ eq.numbers <=> Close(eq.v.F, eq.other.F, eq.tol)
        /\ eq.vectors <=> sameX
        /\ eq.vertices <=> (sameX /\ Close(eq.v.F, eq.other.F, eq.tol))

\* Two vertices of MaxN parameters were found approximately equal though
\* their points and F values differ, with a positive tolerance.
C15_Witness ==
  /\ pc = "compared"
  /\ Len(eq.v.X) = MaxN
  /\ eq.v.X # eq.other.X
  /\ eq.v.F # eq.other.F
  /\ eq.vertices

\* A call of replaceVertex has just returned: last describes it, Vertices
\* is the simplex it left and vMid the centroid it was given.
JustAttempted == pc \in {"replace", "shrink"} /\ i >= 1

\* The point a + k*(b - c).
Along(a, k, b, c) == [j \in 1..Len(a) |-> RAdd(a[j], RMul(k, RSub(b[j], c[j])))]

\* The reflected and the extended point of the last call of replaceVertex:
\* xMid + Kreflect*(xMid - xHigh) and xMid + Kextend*(xRefl - xMid).
ReflectedPoint == Along(vMid.X, Kreflect, vMid.X, last.before[last.slot].X)
ExtendedPoint == Along(vMid.X, Kextend, ReflectedPoint, vMid.X)

\* C17: replaceVertex evaluates the reflected point first; when its value
\* is strictly below that of the best vertex it evaluates the extended
\* point as well, replaces the slot (by the extended point when that is
\* strictly better than the reflected one, by the reflected point
\* otherwise, each with its value) and nothing else, and reports success
\* with exactly 2 evaluations.
C17_ReflectThenExtend ==
  JustAttempted =>
    LET fRefl == Eval(F, ReflectedPoint)
        fExt == Eval(F, ExtendedPoint)
        fMin == last.before[1].F
    IN  /\ Len(last.calls) >= 1
        /\ last.calls[1] = ReflectedPoint
        /\ RLess(fRefl, fMin) =>
             /\ last.calls = <<ReflectedPoint, ExtendedPoint>>
             /\ last.nfe = 2
             /\ last.success
             /\ Vertices =
                  [last.before EXCEPT ![last.slot] =
                     IF RLess(fExt, fRefl) THEN [X |-> ExtendedPoint, F |-> fExt]
                     ELSE [X |-> ReflectedPoint, F |-> fRefl]]

\* An attempt on a simplex of MaxN+1 vertices has just stored its extended
\* point.
C17_Witness ==
  /\ JustAttempted
  /\ Len(Vertices) = MaxN + 1
  /\ last.move = "extend"
  /\ Vertices[last.slot].X = ExtendedPoint
  /\ Vertices[last.slot].X # ReflectedPoint

\* The contracted point of the last call of replaceVertex:
\* (1 - Kcontract)*xMid + Kcontract*xHigh.
ContractedPoint ==
  [j \in 1..Len(vMid.X) |->
     RAdd(RMul(RSub(ROne, Kcontract), vMid.X[j]),
          RMul(Kcontract, last.before[last.slot].X[j]))]

\* C18: when the value of the reflected point is not below that of the
\* best vertex, replaceVertex counts the vertices of the simplex with F
\* strictly above it.  With more than one it replaces the slot by the
\* reflected point and reports success with exactly 1 evaluation.
\* Otherwise it evaluates the contracted point (2 evaluations) and replaces
\* the slot by it only when its value is strictly below that of the vertex
\* in the slot; if not, it reports failure and leaves the simplex as it was.
C18_KeepReflectionOrContract ==
  JustAttempted =>
    LET vs == last.before
        fRefl == Eval(F, ReflectedPoint)
        fCon == Eval(F, ContractedPoint)
        fHigh == vs[last.slot].F
        c == Cardinality({v \in 1..Len(vs) : RLess(fRefl, vs[v].F)})
    IN  ~RLess(fRefl, vs[1].F) =>
          IF c > 1
          THEN /\ last.calls = <<ReflectedPoint>>
               /\ last.nfe = 1
               /\ last.success
               /\ Vertices = [vs EXCEPT ![last.slot] = [X |-> ReflectedPoint, F |-> fRefl]]
          ELSE /\ last.calls = <<ReflectedPoint, ContractedPoint>>
               /\ last.nfe = 2
               /\ last.success = RLess(fCon, fHigh)
               /\ Vertices =
                    IF RLess(fCon, fHigh)
                    THEN [vs EXCEPT ![last.slot] = [X |-> ContractedPoint, F |-> fCon]]
                    ELSE vs

\* An attempt on a simplex of MaxN+1 vertices with different values has
\* just failed: the contracted point was evaluated and was no better.
C18_Witness ==
  /\ JustAttempted
  /\ Len(Vertices) = MaxN + 1
  /\ ~last.success
  /\ last.nfe = 2
  /\ last.calls[2] = ContractedPoint
  /\ Vertices = last.before
  /\ Vertices[1].F # Vertices[last.slot].F

\* The slots the attempts of an iteration are made on: the P last ones.
TargetSlots == {v \in 1..Len(Vertices) : v > Len(Vertices) - P}

\* An attempt of the current iteration was accepted: a target slot holds
\* another vertex than at the start of the iteration.
SomeAccepted == \E v \in TargetSlots : Vertices[v] # iterStart[v]

C20_CounterIsCalls ==
  /\ []((pc \in {"mfp_loop", "ts_loop", "replace", "shrink", "sort", "fstats", "done"})
          => NFEvaluations = ncalls)
  /\ [][/\ (pc = "idle" /\ pc' = "mfp_loop") => ncalls' = Len(x0') + 1
        /\ (pc = "idle" /\ pc' = "done") => ncalls' = 0
        /\ (pc = "replace") => (ncalls' - ncalls) \in {1, 2}
        /\ (pc = "shrink") => (ncalls' - ncalls) \in {0, Len(x0)}
        /\ (pc \notin {"new", "idle", "replace", "shrink"}) => ncalls' = ncalls]_vars

\* MinimizeFromPoint returned after attempts of 1 and of 2 evaluations and
\* a shrink.
C20_Witness ==
  /\ pc = "done"
  /\ err = "nil"
  /\ Nrestarts >= 1
  /\ P >= 1
  /\ last.nfe = 1
  /\ NFEvaluations = ncalls
  /\ NFEvaluations > 2 * Len(x0) + 3

\* TakeSteps is inside an iteration, after the centroid and before the sort.
InIteration == pc \in {"replace", "shrink"}

\* C21: an iteration of TakeSteps computes the centroid once, before any
\* attempt, from the simplex it finds and without its P last vertices; the
\* attempts all use it and are made on the slots N, N-1, .., N-P+1, one
\* each, writing no other slot; and the simplex is sorted once, at the end
\* of the iteration, after the attempts and the shrink.
C21_OneCentroidOneSort ==
  /\ [](InIteration =>
          /\ IsMeanOfFirst(vMid, iterStart, Len(iterStart) - P)
          /\ i <= Max2(P, 0)
          /\ (pc = "shrink") => i = Max2(P, 0)
          /\ (i >= 1) =>
               /\ last.slot = Len(Vertices) - i + 1
               /\ \A v \in 1..Len(Vertices) :
                    v # last.slot => Vertices[v] = last.before[v])
  /\ [][/\ (pc = "ts_loop" /\ pc' \in {"replace", "shrink"}) =>
             (Vertices' = Vertices /\ ncalls' = ncalls /\ i' = 0)
        /\ InIteration => vMid' = vMid
        /\ (pc = "replace") => pc' \in {"replace", "shrink"}
        /\ (pc = "shrink") => (pc' = "sort" /\ step' = step)
        /\ (pc = "sort") =>
             /\ pc' = "ts_loop"
             /\ step' = step + 1
             /\ NonDecreasing(Vertices')
             /\ SameVertices(Vertices, Vertices')
        /\ (pc \in {"ts_loop", "replace"}) => step' = step]_vars

\* Both attempts of an iteration with P = 2 have been made, the first was
\* accepted, and the simplex is not in ascending order: it has not been
\* sorted since.
C21_Witness ==
  /\ pc = "shrink"
  /\ P = 2
  /\ i = 2
  /\ Vertices[Len(Vertices)] # iterStart[Len(Vertices)]
  /\ ~NonDecreasing(Vertices)

\* C22: when TakeSteps has returned an error to MinimizeFromPoint,
\* MinimizeFromPoint stops and returns an error, with the simplex and the
\* counters as they were.
C22_BatchErrorReturned ==
  [][(pc = "fstats" /\ IsError(tsErr)) =>
       /\ pc' = "done"
       /\ IsError(err')
       /\ Vertices' = Vertices
       /\ NFEvaluations' = NFEvaluations
       /\ Nrestarts' = Nrestarts]_vars

\* P is between 1 and N.
PInRange == 1 <= P /\ P <= Len(x0)

\* C23: with 1 <= P <= N no attempt and no shrink writes vertex 0, so no
\* step of a run raises the value at index 0: the best value of the simplex
\* after an iteration is never above the best value before it, over any
\* number of iterations.
C23_BestNeverIncreases ==
  /\ []((PInRange /\ pc \in {"replace", "shrink", "sort"}) =>
          (Vertices[1] = iterStart[1] /\ (i >= 1 => last.slot > 1)))
  /\ [][(PInRange /\ Running /\ Len(Vertices) > 0) =>
          /\ Len(Vertices') = Len(Vertices)
          /\ RLeq(Vertices'[1].F, Vertices[1].F)]_vars

\* Two iterations have ended and the second one lowered the best value.
C23_Witness ==
  /\ pc = "ts_loop"
  /\ PInRange
  /\ step = 2
  /\ RLess(Vertices[1].F, iterStart[1].F)

=============================================================================
